---- MODULE Spec2Model ----
(***************************************************************************)
(* Model of the weather client in src/main.go: one run of main() (argument *)
(* check, config load, cache load, cache-hit test, the two provider        *)
(* goroutines with their WaitGroup and mutex, averaging, cache update and  *)
(* save), and consecutive runs of the process over the same cache.json.    *)
(***************************************************************************)
EXTENDS Integers, Sequences, FiniteSets, TLC

VARIABLES
    run,              \* number of the current process run
    now,              \* wall clock, in minutes
    city,             \* value of the -city flag
    configFile,       \* state of config.json
    cacheFile,        \* content of cache.json
    pc,               \* position of main()
    exitCode,         \* exit status of the process, Running while it runs
    out,              \* lines printed so far, in order
    cache,            \* main's `cache` (*Cache)
    wg,               \* counter of the sync.WaitGroup
    mutex,            \* holder of the sync.Mutex, Unlocked when free
    weatherDataList,  \* main's `weatherDataList`
    avgTemp,          \* main's `avgTemp`
    g,                \* the two goroutines: position and locals
    origin,           \* history: which goroutine appended each list element
    calls,            \* history: providers whose HTTP GET was issued
    saves,            \* history: number of saveCache calls in this run
    file0,            \* history: cache.json at the start of the run
    cache0,           \* history: `cache` as loadCache returned it
    prev              \* history: the previous run, its city and whether it saved

vars == <<run, now, city, configFile, cacheFile, pc, exitCode, out, cache, wg,
          mutex, weatherDataList, avgTemp, g, origin, calls, saves, file0,
          cache0, prev>>

----------------------------------------------------------------------------
\* Bounds and program constants

MaxRuns == 2

TTL == 10

ExitOK == 0

ExitFail == 1

ExitPanic == 2

Running == 0 - 1

Unlocked == "unlocked"

OWM == "OpenWeatherMap"

WAPI == "WeatherAPI"

Providers == {OWM, WAPI}

Cities == {"", "Paris", "Rome"}

Statuses == {200, 404}

----------------------------------------------------------------------------
\* Data: WeatherData, Cache and their JSON forms

WD(temp, hum, descs, name) ==
    [Main |-> [Temp |-> temp, Humidity |-> hum],
     Weather |-> [k \in 1..Len(descs) |-> [Description |-> descs[k]]],
     Name |-> name]

ZeroWD == WD(0, 0, <<>>, "")

ProviderWDs == {ZeroWD, WD(10, 50, <<"clear sky">>, "Paris"),
                WD(20, 60, <<"light rain">>, "Paris, FR")}

CachedWDs == {WD(5, 70, <<"mist">>, "Old"), WD(7, 80, <<>>, "Bare")}

\* json.Marshal / json.Unmarshal of a WeatherData, by the struct tags
MarshalWD(w) ==
    [main |-> [temp |-> w.Main.Temp, humidity |-> w.Main.Humidity],
     weather |-> [k \in 1..Len(w.Weather) |->
                     [description |-> w.Weather[k].Description]],
     name |-> w.Name]

UnmarshalWD(j) ==
    [Main |-> [Temp |-> j.main.temp, Humidity |-> j.main.humidity],
     Weather |-> [k \in 1..Len(j.weather) |->
                     [Description |-> j.weather[k].description]],
     Name |-> j.name]

EmptyMap == [c \in {} |-> ZeroWD]

EmptyJsonMap == [c \in {} |-> MarshalWD(ZeroWD)]

\* time.Time: the wall reading and whether a monotonic reading is attached
ZeroTime == [wall |-> 0 - 1000000, mono |-> FALSE]

NilCache == [isNil |-> TRUE, DataNil |-> TRUE, Data |-> EmptyMap,
             Timestamp |-> ZeroTime]

NewCache == [isNil |-> FALSE, DataNil |-> FALSE, Data |-> EmptyMap,
             Timestamp |-> ZeroTime]

\* Variant of line 155 that marshals the entries and leaves the timestamp
\* out, so that the file holds the zero time
MarshalCacheNoTimestamp(c) ==
    [kind |-> "json",
     dataNull |-> c.DataNil,
     data |-> [k \in DOMAIN c.Data |-> MarshalWD(c.Data[k])],
     timestamp |-> ZeroTime.wall]

\* json.MarshalIndent(cache): a nil map is written as null, the timestamp
\* as RFC 3339 text, which drops the monotonic reading
MarshalCache(c) ==
    [kind |-> "json",
     dataNull |-> c.DataNil,
     data |-> [k \in DOMAIN c.Data |-> MarshalWD(c.Data[k])],
     timestamp |-> c.Timestamp.wall]

UnmarshalCache(f) ==
    [isNil |-> FALSE,
     DataNil |-> f.dataNull,
     Data |-> [k \in DOMAIN f.data |-> UnmarshalWD(f.data[k])],
     Timestamp |-> [wall |-> f.timestamp, mono |-> FALSE]]

NoFile(kind) ==
    [kind |-> kind, dataNull |-> TRUE, data |-> EmptyJsonMap,
     timestamp |-> ZeroTime.wall]

FileTimes == {0 - TTL, 1 - TTL}

FileMaps ==
    UNION {[S -> {MarshalWD(w) : w \in CachedWDs}] : S \in SUBSET (Cities \ {""})}

CacheFiles ==
    {NoFile("absent"), NoFile("unreadable"), NoFile("malformed")}
    \cup {[kind |-> "json", dataNull |-> FALSE, data |-> m, timestamp |-> t] :
             m \in FileMaps, t \in FileTimes}
    \cup {[kind |-> "json", dataNull |-> TRUE, data |-> EmptyJsonMap,
           timestamp |-> t] : t \in FileTimes \cup {ZeroTime.wall}}

ConfigFiles == {"ok", "missing", "malformed"}

\* Time that passes between two runs of the process
RunDelays == {1, TTL}

\* What one HTTP GET can come back with: no response (http.Get fails), a
\* response whose body cannot be read, or a status and a body.  A body is
\* either not the JSON of a WeatherData (decoding fails) or a JSON object;
\* the keys an object lacks leave the zero value, so a provider's error
\* object {"cod": 404, "message": ...} decodes as MarshalWD(ZeroWD) does.
InvalidBody == [valid |-> FALSE, json |-> MarshalWD(ZeroWD)]

ErrorBody == [valid |-> TRUE, json |-> MarshalWD(ZeroWD)]

Bodies == {InvalidBody} \cup {[valid |-> TRUE, json |-> MarshalWD(w)] : w \in ProviderWDs}

Outcomes ==
    {[kind |-> "neterr", status |-> 0, body |-> InvalidBody],
     [kind |-> "readerr", status |-> 200, body |-> InvalidBody]}
    \cup {[kind |-> "response", status |-> 200, body |-> b] : b \in Bodies}
    \cup {[kind |-> "response", status |-> s, body |-> b] :
              s \in Statuses \ {200}, b \in {InvalidBody, ErrorBody}}

----------------------------------------------------------------------------
\* Functions of main.go

loadConfig(f) == [err |-> f # "ok"]

\* Variant of loadCache that hands back the zero Cache with the error
\* (return &cache, err) in place of nil
loadCacheZeroValue(f) ==
    IF f.kind = "absent" THEN [cache |-> NilCache, err |-> FALSE]
    ELSE IF f.kind \in {"unreadable", "malformed"}
         THEN [cache |-> [NilCache EXCEPT !.isNil = FALSE], err |-> TRUE]
         ELSE [cache |-> UnmarshalCache(f), err |-> FALSE]

\* Variant of loadCache without the os.IsNotExist test of line 139
loadCacheMissingIsError(f) ==
    IF f.kind \in {"absent", "unreadable", "malformed"}
    THEN [cache |-> NilCache, err |-> TRUE]
    ELSE [cache |-> UnmarshalCache(f), err |-> FALSE]

loadCache(f) ==
    IF f.kind = "absent" THEN [cache |-> NilCache, err |-> FALSE]
    ELSE IF f.kind \in {"unreadable", "malformed"}
         THEN [cache |-> NilCache, err |-> TRUE]
         ELSE [cache |-> UnmarshalCache(f), err |-> FALSE]

\* ioutil.WriteFile(filename, data, 0644): the file is opened with O_TRUNC,
\* so a failure is either at open (file untouched) or after truncation
WriteResults == {"ok", "openfail", "partial"}

WriteFile(old, data, res) ==
    IF res = "ok" THEN data
    ELSE IF res = "partial" THEN NoFile("malformed")
         ELSE old

fetchWeatherData(o) ==
    IF o.kind = "neterr" THEN [data |-> ZeroWD, err |-> "get"]
    ELSE IF o.kind = "readerr" THEN [data |-> ZeroWD, err |-> "read"]
    ELSE IF ~o.body.valid THEN [data |-> ZeroWD, err |-> "decode"]
    ELSE [data |-> UnmarshalWD(o.body.json), err |-> "nil"]

\* Variants of the test of line 55 with a plausible slip: the limit one
\* minute short, and the age not looked at
IsFreshOneShort(c, t) == ~c.isNil /\ t - c.Timestamp.wall < TTL - 1

IsFreshAnyAge(c, t) == ~c.isNil

\* line 55: cache != nil && time.Since(cache.Timestamp).Minutes() < 10
IsFresh(c, t) == ~c.isNil /\ t - c.Timestamp.wall < TTL

\* line 56: _, exists := cache.Data[*city]
Exists(c, k) == k \in DOMAIN c.Data

\* Variant of lines 73, 84 that forgets the test of err
ShouldAppendAlways(err) == TRUE

\* lines 73, 84: if err == nil
ShouldAppend(err) == err = "nil"

\* Variant of wg.Wait() that returns with one goroutine still counted
WaitReturnsEarly(n) == n <= 1

\* line 91: wg.Wait() returns when the counter is zero
WaitReturns(n) == n = 0

\* Variant of mutex.Lock() that does not wait for the holder
LockGrantedAlways(m) == TRUE

\* lines 74, 85: mutex.Lock() is granted when nobody holds the mutex
LockGranted(m) == m = Unlocked

\* lines 99-103: the sum of the temperatures over the length, as a fraction
RECURSIVE TotalTemp(_)
TotalTemp(l) ==
    IF l = <<>> THEN 0 ELSE l[1].Main.Temp + TotalTemp(Tail(l))

\* Variant of line 103 that divides by the number of providers
AverageOverProviders(l) == [num |-> TotalTemp(l), den |-> Cardinality(Providers)]

\* Variant of lines 99-103 that reports the first reading's temperature
AverageOfFirst(l) == [num |-> l[1].Main.Temp, den |-> 1]

Average(l) == [num |-> TotalTemp(l), den |-> Len(l)]

\* Variant of lines 106, 112 that takes the last reading
RepresentativeLast(l) == l[Len(l)]

\* lines 106, 112: weatherDataList[0]
Representative(l) == l[1]

Line(text, arg) == [text |-> text, arg |-> arg]

Idle == [pc |-> "idle", data |-> ZeroWD, err |-> "nil", status |-> 0,
         tmp |-> <<>>]

NoAvg == [num |-> 0, den |-> 1]

NoRun == [city |-> "", saved |-> FALSE]

\* lines 114-117: saveCache was called in this run and returned no error
SavedOk ==
    /\ saves = 1
    /\ \A k \in 1..Len(out) : out[k].text # "Error saving cache:"

----------------------------------------------------------------------------
\* The state after the process is started

RunStart(c, t, cfg, f, r) ==
    /\ run = r
    /\ now = t
    /\ city = c
    /\ configFile = cfg
    /\ cacheFile = f
    /\ pc = "args"
    /\ exitCode = Running
    /\ out = <<>>
    /\ cache = NilCache
    /\ wg = 0
    /\ mutex = Unlocked
    /\ weatherDataList = <<>>
    /\ avgTemp = NoAvg
    /\ g = [i \in Providers |-> Idle]
    /\ origin = <<>>
    /\ calls = {}
    /\ saves = 0
    /\ file0 = f
    /\ cache0 = NilCache
    /\ prev = NoRun

Init ==
    \E c \in Cities, cfg \in ConfigFiles, f \in CacheFiles :
        RunStart(c, 0, cfg, f, 1)

Exit(code, lines) ==
    /\ pc' = "done"
    /\ exitCode' = code
    /\ out' = out \o lines

Goto(next, lines) ==
    /\ pc' = next
    /\ exitCode' = exitCode
    /\ out' = out \o lines

----------------------------------------------------------------------------
\* main(), lines 35-118

\* lines 39-42
MainArgs ==
    /\ pc = "args"
    /\ IF city = ""
       THEN Exit(ExitFail, <<Line("City name must be specified", "")>>)
       ELSE Goto("loadConfig", <<>>)
    /\ UNCHANGED <<run, now, city, configFile, cacheFile, cache, wg, mutex,
                   weatherDataList, avgTemp, g, origin, calls, saves, file0,
                   cache0, prev>>

\* lines 44-48
MainLoadConfig ==
    /\ pc = "loadConfig"
    /\ IF loadConfig(configFile).err
       THEN Exit(ExitFail, <<Line("Error loading config:", "")>>)
       ELSE Goto("loadCache", <<>>)
    /\ UNCHANGED <<run, now, city, configFile, cacheFile, cache, wg, mutex,
                   weatherDataList, avgTemp, g, origin, calls, saves, file0,
                   cache0, prev>>

\* lines 50-53
MainLoadCache ==
    /\ pc = "loadCache"
    /\ LET r == loadCache(cacheFile) IN
          /\ cache' = r.cache
          /\ cache0' = r.cache
          /\ Goto("checkCache",
                  IF r.err THEN <<Line("Error loading cache:", "")>>
                           ELSE <<>>)
    /\ UNCHANGED <<run, now, city, configFile, cacheFile, wg, mutex,
                   weatherDataList, avgTemp, g, origin, calls, saves, file0,
                   prev>>

\* lines 57-61: the four lines of a cache hit; indexing Weather[0] of an
\* empty slice panics after the first three are printed
HitReport(w) ==
    <<Line("Weather in %s (from cache):", w.Name),
      Line("Temperature: %.2f", w.Main.Temp),
      Line("Humidity: %d%%", w.Main.Humidity)>>
    \o (IF Len(w.Weather) = 0 THEN <<>>
        ELSE <<Line("Description: %s", w.Weather[1].Description)>>)

\* lines 55-63
MainCheckCache ==
    /\ pc = "checkCache"
    /\ IF IsFresh(cache, now) /\ Exists(cache, city)
       THEN LET w == cache.Data[city] IN
               Exit(IF Len(w.Weather) = 0 THEN ExitPanic ELSE ExitOK,
                    HitReport(w))
       ELSE Goto("spawn1", <<>>)
    /\ UNCHANGED <<run, now, city, configFile, cacheFile, cache, wg, mutex,
                   weatherDataList, avgTemp, g, origin, calls, saves, file0,
                   cache0, prev>>

\* lines 69-70 and 80-81: wg.Add(1); go func() {...}()
Spawn(i, at, next) ==
    /\ pc = at
    /\ wg' = wg + 1
    /\ g' = [g EXCEPT ![i].pc = "ready"]
    /\ Goto(next, <<>>)
    /\ UNCHANGED <<run, now, city, configFile, cacheFile, cache, mutex,
                   weatherDataList, avgTemp, origin, calls, saves, file0,
                   cache0, prev>>

MainSpawnOWM == Spawn(OWM, "spawn1", "spawn2")

MainSpawnWAPI == Spawn(WAPI, "spawn2", "wait")

\* line 91: wg.Wait()
MainWait ==
    /\ pc = "wait"
    /\ WaitReturns(wg)
    /\ Goto("checkLen", <<>>)
    /\ UNCHANGED <<run, now, city, configFile, cacheFile, cache, wg, mutex,
                   weatherDataList, avgTemp, g, origin, calls, saves, file0,
                   cache0, prev>>

\* lines 93-96
MainCheckLen ==
    /\ pc = "checkLen"
    /\ IF Len(weatherDataList) = 0
       THEN Exit(ExitFail, <<Line("Failed to retrieve weather data", "")>>)
       ELSE Goto("average", <<>>)
    /\ UNCHANGED <<run, now, city, configFile, cacheFile, cache, wg, mutex,
                   weatherDataList, avgTemp, g, origin, calls, saves, file0,
                   cache0, prev>>

\* lines 99-103
MainAverage ==
    /\ pc = "average"
    /\ avgTemp' = Average(weatherDataList)
    /\ Goto("print", <<>>)
    /\ UNCHANGED <<run, now, city, configFile, cacheFile, cache, wg, mutex,
                   weatherDataList, g, origin, calls, saves, file0, cache0, prev>>

\* lines 106-107
MainPrint ==
    /\ pc = "print"
    /\ Goto("update",
            <<Line("Average Temperature in %s:",
                   Representative(weatherDataList).Name),
              Line("Temperature: %.2f (average)", avgTemp)>>)
    /\ UNCHANGED <<run, now, city, configFile, cacheFile, cache, wg, mutex,
                   weatherDataList, avgTemp, g, origin, calls, saves, file0,
                   cache0, prev>>

\* Variant of lines 109-113 that starts from a new map whenever it stores
MainUpdateFreshMap ==
    /\ pc = "update"
    /\ cache' = [NewCache EXCEPT
                    !.Data = [k \in {city} |-> Representative(weatherDataList)],
                    !.Timestamp = [wall |-> now, mono |-> TRUE]]
    /\ Goto("save", <<>>)
    /\ UNCHANGED <<run, now, city, configFile, cacheFile, wg, mutex,
                   weatherDataList, avgTemp, g, origin, calls, saves, file0,
                   cache0, prev>>

\* Variant of lines 109-113 without line 113: the timestamp is not bumped
MainUpdateKeepsTimestamp ==
    /\ pc = "update"
    /\ LET c == IF cache.isNil THEN NewCache ELSE cache IN
          IF c.DataNil
          THEN /\ cache' = c
               /\ Exit(ExitPanic, <<>>)
          ELSE /\ cache' =
                    [c EXCEPT
                       !.Data = [k \in DOMAIN c.Data \cup {city} |->
                                    IF k = city
                                    THEN Representative(weatherDataList)
                                    ELSE c.Data[k]]]
               /\ Goto("save", <<>>)
    /\ UNCHANGED <<run, now, city, configFile, cacheFile, wg, mutex,
                   weatherDataList, avgTemp, g, origin, calls, saves, file0,
                   cache0, prev>>

\* Variant of line 112 that files the reading under the name the provider
\* returned, not under *city
MainUpdateKeyedByName ==
    /\ pc = "update"
    /\ LET c == IF cache.isNil THEN NewCache ELSE cache
           w == Representative(weatherDataList) IN
          IF c.DataNil
          THEN /\ cache' = c
               /\ Exit(ExitPanic, <<>>)
          ELSE /\ cache' =
                    [c EXCEPT
                       !.Data = [k \in DOMAIN c.Data \cup {w.Name} |->
                                    IF k = w.Name THEN w ELSE c.Data[k]],
                       !.Timestamp = [wall |-> now, mono |-> TRUE]]
               /\ Goto("save", <<>>)
    /\ UNCHANGED <<run, now, city, configFile, cacheFile, wg, mutex,
                   weatherDataList, avgTemp, g, origin, calls, saves, file0,
                   cache0, prev>>

\* Variant of line 112 that stores the average as the entry's temperature
MainUpdateStoresAverage ==
    /\ pc = "update"
    /\ LET c == IF cache.isNil THEN NewCache ELSE cache
           w == [Representative(weatherDataList) EXCEPT
                    !.Main.Temp = avgTemp.num \div avgTemp.den] IN
          IF c.DataNil
          THEN /\ cache' = c
               /\ Exit(ExitPanic, <<>>)
          ELSE /\ cache' =
                    [c EXCEPT
                       !.Data = [k \in DOMAIN c.Data \cup {city} |->
                                    IF k = city THEN w ELSE c.Data[k]],
                       !.Timestamp = [wall |-> now, mono |-> TRUE]]
               /\ Goto("save", <<>>)
    /\ UNCHANGED <<run, now, city, configFile, cacheFile, wg, mutex,
                   weatherDataList, avgTemp, g, origin, calls, saves, file0,
                   cache0, prev>>

\* lines 109-113; the assignment of line 112 to an entry of a nil map panics
MainUpdate ==
    /\ pc = "update"
    /\ LET c == IF cache.isNil THEN NewCache ELSE cache IN
          IF c.DataNil
          THEN /\ cache' = c
               /\ Exit(ExitPanic, <<>>)
          ELSE /\ cache' =
                    [c EXCEPT
                       !.Data = [k \in DOMAIN c.Data \cup {city} |->
                                    IF k = city
                                    THEN Representative(weatherDataList)
                                    ELSE c.Data[k]],
                       !.Timestamp = [wall |-> now, mono |-> TRUE]]
               /\ Goto("save", <<>>)
    /\ UNCHANGED <<run, now, city, configFile, cacheFile, wg, mutex,
                   weatherDataList, avgTemp, g, origin, calls, saves, file0,
                   cache0, prev>>

\* Variant of lines 114-118 that exits 1 when saveCache fails
MainSaveFatal ==
    /\ pc = "save"
    /\ saves' = saves + 1
    /\ \E res \in WriteResults :
          /\ cacheFile' = WriteFile(cacheFile, MarshalCache(cache), res)
          /\ IF res = "ok" THEN Exit(ExitOK, <<>>)
             ELSE Exit(ExitFail, <<Line("Error saving cache:", "")>>)
    /\ UNCHANGED <<run, now, city, configFile, cache, wg, mutex,
                   weatherDataList, avgTemp, g, origin, calls, file0, cache0,
                   prev>>

\* lines 114-118, with saveCache (154-161)
MainSave ==
    /\ pc = "save"
    /\ saves' = saves + 1
    /\ \E res \in WriteResults :
          /\ cacheFile' = WriteFile(cacheFile, MarshalCache(cache), res)
          /\ Exit(ExitOK,
                  IF res = "ok" THEN <<>>
                  ELSE <<Line("Error saving cache:", "")>>)
    /\ UNCHANGED <<run, now, city, configFile, cache, wg, mutex,
                   weatherDataList, avgTemp, g, origin, calls, file0, cache0, prev>>

----------------------------------------------------------------------------
\* The goroutines, lines 70-78 and 81-89

\* lines 72, 83: the call is made, http.Get is in flight (line 174)
GCall(i) ==
    /\ g[i].pc = "ready"
    /\ g' = [g EXCEPT ![i].pc = "inflight"]
    /\ calls' = calls \cup {i}
    /\ UNCHANGED <<run, now, city, configFile, cacheFile, pc, exitCode, out,
                   cache, wg, mutex, weatherDataList, avgTemp, origin, saves,
                   file0, cache0, prev>>

\* lines 72, 83 with 173-192: fetchWeatherData returns data, err
GReturn(i) ==
    /\ g[i].pc = "inflight"
    /\ \E o \in Outcomes :
          LET r == fetchWeatherData(o) IN
             g' = [g EXCEPT ![i].pc = "returned", ![i].data = r.data,
                            ![i].err = r.err, ![i].status = o.status]
    /\ UNCHANGED <<run, now, city, configFile, cacheFile, pc, exitCode, out,
                   cache, wg, mutex, weatherDataList, avgTemp, origin, calls,
                   saves, file0, cache0, prev>>

\* lines 73-74, 84-85: if err == nil { mutex.Lock()
GLock(i) ==
    /\ g[i].pc = "returned"
    /\ ShouldAppend(g[i].err)
    /\ LockGranted(mutex)
    /\ mutex' = i
    /\ g' = [g EXCEPT ![i].pc = "locked"]
    /\ UNCHANGED <<run, now, city, configFile, cacheFile, pc, exitCode, out,
                   cache, wg, weatherDataList, avgTemp, origin, calls, saves,
                   file0, cache0, prev>>

\* lines 75, 86: append reads the slice ...
GAppendRead(i) ==
    /\ g[i].pc = "locked"
    /\ g' = [g EXCEPT ![i].pc = "appending", ![i].tmp = weatherDataList]
    /\ UNCHANGED <<run, now, city, configFile, cacheFile, pc, exitCode, out,
                   cache, wg, mutex, weatherDataList, avgTemp, origin, calls,
                   saves, file0, cache0, prev>>

\* ... and assigns the extended slice to weatherDataList
GAppendWrite(i) ==
    /\ g[i].pc = "appending"
    /\ weatherDataList' = Append(g[i].tmp, g[i].data)
    /\ origin' = Append(SubSeq(origin, 1, Len(g[i].tmp)), i)
    /\ g' = [g EXCEPT ![i].pc = "unlocking", ![i].tmp = <<>>]
    /\ UNCHANGED <<run, now, city, configFile, cacheFile, pc, exitCode, out,
                   cache, wg, mutex, avgTemp, calls, saves, file0, cache0, prev>>

\* lines 76, 87: mutex.Unlock()
GUnlock(i) ==
    /\ g[i].pc = "unlocking"
    /\ mutex' = Unlocked
    /\ g' = [g EXCEPT ![i].pc = "exiting"]
    /\ UNCHANGED <<run, now, city, configFile, cacheFile, pc, exitCode, out,
                   cache, wg, weatherDataList, avgTemp, origin, calls, saves,
                   file0, cache0, prev>>

\* lines 71, 82: the deferred wg.Done(), on either branch of line 73 / 84
GDone(i) ==
    /\ \/ g[i].pc = "exiting"
       \/ g[i].pc = "returned" /\ ~ShouldAppend(g[i].err)
    /\ wg' = wg - 1
    /\ g' = [g EXCEPT ![i].pc = "done"]
    /\ UNCHANGED <<run, now, city, configFile, cacheFile, pc, exitCode, out,
                   cache, mutex, weatherDataList, avgTemp, origin, calls,
                   saves, file0, cache0, prev>>

----------------------------------------------------------------------------
\* The process is started again, later, over the same files

Restart ==
    /\ pc = "done"
    /\ run < MaxRuns
    /\ run' = run + 1
    /\ \E d \in RunDelays : now' = now + d
    /\ city' \in Cities
    /\ pc' = "args"
    /\ exitCode' = Running
    /\ out' = <<>>
    /\ cache' = NilCache
    /\ wg' = 0
    /\ mutex' = Unlocked
    /\ weatherDataList' = <<>>
    /\ avgTemp' = NoAvg
    /\ g' = [i \in Providers |-> Idle]
    /\ origin' = <<>>
    /\ calls' = {}
    /\ saves' = 0
    /\ file0' = cacheFile
    /\ cache0' = NilCache
    /\ prev' = [city |-> city, saved |-> SavedOk]
    /\ UNCHANGED <<configFile, cacheFile>>

MainStep ==
    \/ MainArgs
    \/ MainLoadConfig
    \/ MainLoadCache
    \/ MainCheckCache
    \/ MainSpawnOWM
    \/ MainSpawnWAPI
    \/ MainWait
    \/ MainCheckLen
    \/ MainAverage
    \/ MainPrint
    \/ MainUpdate
    \/ MainSave

GStep(i) ==
    \/ GCall(i)
    \/ GReturn(i)
    \/ GLock(i)
    \/ GAppendRead(i)
    \/ GAppendWrite(i)
    \/ GUnlock(i)
    \/ GDone(i)

Next ==
    \/ MainStep
    \/ \E i \in Providers : GStep(i)
    \/ Restart

Spec == Init /\ [][Next]_vars

\* The Go scheduler runs main and every goroutine that can take a step, and
\* a goroutine waiting in mutex.Lock() gets the mutex once it stays free.
\* Nothing makes an HTTP call come back (no timeout is set, line 174).
Fairness ==
    /\ WF_vars(MainStep)
    /\ \A i \in Providers :
          /\ WF_vars(GCall(i))
          /\ WF_vars(GLock(i))
          /\ WF_vars(GAppendRead(i))
          /\ WF_vars(GAppendWrite(i))
          /\ WF_vars(GUnlock(i))
          /\ WF_vars(GDone(i))

\* One run of the process, fairly scheduled
RunNext ==
    \/ MainStep
    \/ \E i \in Providers : GStep(i)

FairSpec == Init /\ [][RunNext]_vars /\ Fairness

----------------------------------------------------------------------------
\* Vocabulary of the properties

HitHeader == "Weather in %s (from cache):"

AvgHeader == "Average Temperature in %s:"

Printed(text) == \E k \in 1..Len(out) : out[k].text = text

\* the run gets past the argument and config checks
PassesChecks == city # "" /\ ~loadConfig(configFile).err

\* loadCache has returned in this run
Loaded == PassesChecks /\ pc \notin {"args", "loadConfig", "loadCache"}

\* the provider call of goroutine i has come back
Returned(i) == g[i].pc \notin {"idle", "ready", "inflight"}

Succeeded == {i \in Providers : Returned(i) /\ g[i].err = "nil"}

Failed == {i \in Providers : Returned(i) /\ g[i].err # "nil"}

AllDone == \A i \in Providers : g[i].pc = "done"

\* main is on the fetch path and past wg.Wait()
Joined ==
    /\ g[OWM].pc # "idle"
    /\ pc \in {"checkLen", "average", "print", "update", "save", "done"}

\* the loaded cache is fresh at line 55 and holds the requested city
HitCase ==
    /\ Loaded
    /\ ~cache0.isNil
    /\ now - cache0.Timestamp.wall < TTL
    /\ city \in DOMAIN cache0.Data

\* the loaded cache is at least TTL old at line 55
StaleCase ==
    /\ Loaded
    /\ ~cache0.isNil
    /\ now - cache0.Timestamp.wall >= TTL

----------------------------------------------------------------------------
\* C1: when the cache file loaded, is less than 10 minutes old and holds the
\* requested city, no provider call is ever started and no goroutine is
\* spawned, saveCache is not called and cache.json is not written; the run
\* ends at the cache test, and what it has printed is the cached reading
\* (name, temperature, humidity, and the description when there is one).
C1_FreshHitMakesNoCall ==
    HitCase =>
        /\ calls = {}
        /\ \A i \in Providers : g[i].pc = "idle"
        /\ saves = 0
        /\ cacheFile = file0
        /\ cache = cache0
        /\ pc \in {"checkCache", "done"}
        /\ pc = "done" =>
              LET w == cache0.Data[city] IN
                 /\ exitCode # ExitFail
                 /\ Len(out) >= 3
                 /\ out[1].text = HitHeader /\ out[1].arg = w.Name
                 /\ out[2].arg = w.Main.Temp
                 /\ out[3].arg = w.Main.Humidity
                 /\ Len(w.Weather) > 0 =>
                       /\ Len(out) = 4
                       /\ out[4].arg = w.Weather[1].Description
                       /\ exitCode = ExitOK

C1_Witness ==
    /\ HitCase
    /\ pc = "done"
    /\ exitCode = ExitOK
    /\ Len(out) = 4
    /\ now - cache0.Timestamp.wall = TTL - 1

\* C2: when the loaded cache is 10 minutes old or older, the run never
\* prints a cache hit, stale entry for the city or not, and main does not get
\* past the join (so the run does not end) before both provider calls have
\* been issued.
C2_StaleCacheFetches ==
    StaleCase =>
        /\ ~Printed(HitHeader)
        /\ pc \in {"checkLen", "average", "print", "update", "save", "done"}
              => calls = Providers

C2_Witness ==
    /\ StaleCase
    /\ now - cache0.Timestamp.wall = TTL
    /\ city \in DOMAIN cache0.Data
    /\ pc = "done"
    /\ calls = Providers

C5_OnlyDecoded2xxAppended ==
    /\ \A i \in Providers :
          (Returned(i) /\ g[i].status \notin 200..299) => g[i].err # "nil"
    /\ \A k \in 1..Len(origin) : g[origin[k]].status \in 200..299

\* C6: a finished run has exit code 0 or 1: 0 exactly when it was a cache
\* hit or at least one provider call succeeded, 1 exactly when the city is
\* empty, the config did not load or no provider call succeeded.
C6_ExitCodeZeroOrOne ==
    pc = "done" =>
        /\ exitCode \in {ExitOK, ExitFail}
        /\ exitCode = ExitOK <=> (HitCase \/ Succeeded # {})
        /\ exitCode = ExitFail <=>
              \/ city = ""
              \/ loadConfig(configFile).err
              \/ (~HitCase /\ Succeeded = {})

\* C7: when both provider calls succeeded, the average is the arithmetic
\* mean of the two temperatures, whichever reading was appended first, and
\* it is the value printed.
C7_MeanOfTwo ==
    (Joined /\ AllDone /\ Succeeded = Providers
        /\ pc \in {"print", "update", "save", "done"}) =>
        /\ avgTemp.den > 0
        /\ 2 * avgTemp.num =
              (g[OWM].data.Main.Temp + g[WAPI].data.Main.Temp) * avgTemp.den
        /\ pc # "print" =>
              \E k \in 1..Len(out) :
                  /\ out[k].text = "Temperature: %.2f (average)"
                  /\ out[k].arg = avgTemp

\* temperatures 10 and 20 give 15, the reading of 20 appended first
C7_Witness ==
    /\ Joined /\ AllDone
    /\ Succeeded = Providers
    /\ weatherDataList[1].Main.Temp = 20
    /\ weatherDataList[2].Main.Temp = 10
    /\ origin = <<WAPI, OWM>>
    /\ pc = "done"
    /\ avgTemp.num = 15 * avgTemp.den

\* C8: fork-join.  Main is past wg.Wait() (where it first reads the result
\* list) only when both provider calls were issued and both goroutines have
\* finished; and once both calls have come back, main does get past the join.
C8_ForkJoin ==
    /\ [](Joined => (AllDone /\ calls = Providers))
    /\ ((\A i \in Providers : Returned(i)) ~> Joined)

\* one call has succeeded and its goroutine is finished, the other is still
\* in flight, and main is held at wg.Wait()
C8_Witness ==
    /\ pc = "wait"
    /\ g[OWM].pc = "done" /\ g[OWM].err = "nil"
    /\ g[WAPI].pc = "inflight"
    /\ weatherDataList # <<>>

InCS(i) == g[i].pc \in {"locked", "appending", "unlocking"}

\* C9: at most one goroutine is between mutex.Lock() and mutex.Unlock(),
\* and it is the holder of the mutex; after the join the list has one
\* element per provider call that succeeded, each successful reading once.
C9_SerializedAppends ==
    /\ \A i, j \in Providers : (InCS(i) /\ InCS(j)) => i = j
    /\ \A i \in Providers : InCS(i) => mutex = i
    /\ (Joined /\ AllDone) =>
          /\ Len(weatherDataList) = Cardinality(Succeeded)
          /\ Len(origin) = Len(weatherDataList)
          /\ \A i \in Succeeded :
                Cardinality({k \in 1..Len(origin) : origin[k] = i}) = 1
          /\ \A k \in 1..Len(origin) :
                /\ origin[k] \in Succeeded
                /\ weatherDataList[k] = g[origin[k]].data

\* one goroutine is appending while the other, also successful, waits for
\* the mutex
C9_Witness ==
    /\ g[OWM].pc = "appending"
    /\ g[WAPI].pc = "returned" /\ g[WAPI].err = "nil"
    /\ mutex = OWM

\* C10: when cache.json exists but cannot be read or decoded, the error is
\* printed, main has no cache, no hit is printed, the run goes on to the
\* fetch and does not end before both provider calls were issued; when at
\* least one succeeded it ends with exit code 0 after one saveCache of a
\* cache whose only key is the requested city, which is what cache.json
\* holds when the write succeeded.
C10_BadCacheFileIsMiss ==
    (Loaded /\ file0.kind \in {"unreadable", "malformed"}) =>
        /\ cache0.isNil
        /\ out[1].text = "Error loading cache:"
        /\ ~Printed(HitHeader)
        /\ pc = "done" => calls = Providers
        /\ (pc = "done" /\ Succeeded # {}) =>
              /\ exitCode = ExitOK
              /\ saves = 1
              /\ ~cache.isNil
              /\ DOMAIN cache.Data = {city}
              /\ cache.Data[city] = weatherDataList[1]
              /\ ~Printed("Error saving cache:") =>
                    /\ cacheFile.kind = "json"
                    /\ DOMAIN cacheFile.data = {city}
                    /\ UnmarshalWD(cacheFile.data[city]) = weatherDataList[1]

C10_Witness ==
    /\ Loaded
    /\ file0.kind = "malformed"
    /\ pc = "done"
    /\ exitCode = ExitOK
    /\ Cardinality(Succeeded) = 1
    /\ cacheFile.kind = "json"
    /\ DOMAIN cacheFile.data = {city}

\* C11: when cache.json does not exist, loadCache reports no error (nothing
\* is printed about the cache), main has no cache, which is a miss for every
\* city: no hit is printed and the run does not end before both provider
\* calls were issued; when one succeeded the run saves a cache whose only
\* key is the requested city, and that is what cache.json holds when the
\* write succeeded.
C11_MissingCacheFileIsMiss ==
    (Loaded /\ file0.kind = "absent") =>
        /\ ~loadCache(file0).err
        /\ cache0.isNil
        /\ ~Printed("Error loading cache:")
        /\ ~Printed(HitHeader)
        /\ pc \notin {"checkCache", "spawn1"} => g[OWM].pc # "idle"
        /\ pc = "done" => calls = Providers
        /\ (pc = "done" /\ Succeeded # {}) =>
              /\ exitCode = ExitOK
              /\ saves = 1
              /\ DOMAIN cache.Data = {city}
              /\ cache.Data[city] = weatherDataList[1]
              /\ SavedOk =>
                    /\ cacheFile.kind = "json"
                    /\ ~cacheFile.dataNull
                    /\ DOMAIN cacheFile.data = {city}

C11_Witness ==
    /\ Loaded
    /\ file0.kind = "absent"
    /\ pc = "done"
    /\ Succeeded = Providers
    /\ SavedOk
    /\ cacheFile.kind = "json"
    /\ DOMAIN cacheFile.data = {city}

\* C12: the cache is changed at most once in a run, by lines 109-113: up to
\* there, and at the end of every run that did not get there (cache hit,
\* empty city, config error, no data, panic), the cache is the one loaded and
\* cache.json is untouched; from there on it is the loaded cache (or a new
\* one) with the requested city set to the first reading and the timestamp
\* set to now, every other city kept as loaded, and that is what a
\* successful save writes; saveCache is called at most once.
C12_OneMutationOneCity ==
    /\ saves <= 1
    /\ pc \notin {"save", "done"} => (cache = cache0 /\ cacheFile = file0)
    /\ (pc = "done" /\ saves = 0) => (cache = cache0 /\ cacheFile = file0)
    /\ (pc = "save" \/ (pc = "done" /\ saves = 1)) =>
          /\ ~cache.isNil
          /\ DOMAIN cache.Data = DOMAIN cache0.Data \cup {city}
          /\ \A k \in DOMAIN cache0.Data \ {city} :
                cache.Data[k] = cache0.Data[k]
          /\ cache.Data[city] = weatherDataList[1]
          /\ cache.Timestamp.wall = now
          /\ SavedOk =>
                /\ cacheFile.kind = "json"
                /\ cacheFile.timestamp = now
                /\ DOMAIN cacheFile.data = DOMAIN cache0.Data \cup {city}
                /\ \A k \in DOMAIN cache0.Data \ {city} :
                      /\ cacheFile.data[k] = file0.data[k]
                      /\ UnmarshalWD(cacheFile.data[k]) = cache0.Data[k]

\* a stale entry of the city is overwritten and the other city is kept
C12_Witness ==
    /\ pc = "done"
    /\ SavedOk
    /\ DOMAIN cache0.Data = {"Paris", "Rome"}
    /\ city = "Paris"
    /\ cache.Data["Paris"] # cache0.Data["Paris"]
    /\ UnmarshalWD(cacheFile.data["Rome"]) = cache0.Data["Rome"]

\* C13 (run under way): freshness is the one timestamp of the cache.  When the previous run
\* fetched and saved, for some city A, the timestamp of cache.json is the
\* time of that run; and a run for another city B that is a key of the
\* cache and starts less than 10 minutes after it is a cache hit: no
\* goroutine is spawned, no call is issued, and B's cached entry is printed,
\* whenever that entry was written.
C13_OneTimestampForAllCities ==
    (run > 1 /\ prev.saved /\ pc # "done") =>
        /\ file0.kind = "json"
        /\ now - file0.timestamp \in RunDelays
        /\ (Loaded /\ prev.city # city /\ city \in DOMAIN cache0.Data
               /\ now - file0.timestamp < TTL) =>
              /\ cache0.Timestamp.wall = file0.timestamp
              /\ calls = {}
              /\ \A i \in Providers : g[i].pc = "idle"
              /\ pc = "checkCache"

\* C13 (run ended): the run for B ends as a cache hit
C13_HitAtEnd ==
    (run > 1 /\ prev.saved /\ pc = "done" /\ Loaded /\ prev.city # city
        /\ city \in DOMAIN cache0.Data /\ now - file0.timestamp < TTL) =>
        /\ calls = {}
        /\ \A i \in Providers : g[i].pc = "idle"
        /\ saves = 0
        /\ exitCode # ExitFail
        /\ out # <<>>
        /\ out[1].text = HitHeader
        /\ out[1].arg = cache0.Data[city].Name

\* C13: the two parts together, the run for B under way and ended
C13_GlobalFreshness == C13_OneTimestampForAllCities /\ C13_HitAtEnd

\* Paris was fetched one minute ago; Rome's entry is the one cache.json held
\* before that run, at least TTL old, and is served from the cache
C13_Witness ==
    /\ run = 2
    /\ prev.saved
    /\ prev.city = "Paris"
    /\ city = "Rome"
    /\ Loaded
    /\ "Rome" \in DOMAIN cache0.Data
    /\ cache0.Data["Rome"] \in CachedWDs
    /\ now - file0.timestamp = 1
    /\ pc = "done"
    /\ exitCode = ExitOK
    /\ calls = {}

\* C14: a failure to write cache.json is not fatal.  When saveCache is
\* about to be called the averaged result is already printed; a saveCache
\* error adds one line after it, and the run that called saveCache ends with
\* exit code 0 whether the write succeeded or not.
C14_SaveFailureNotFatal ==
    /\ pc = "save" =>
          /\ saves = 0
          /\ Len(out) >= 2
          /\ out[Len(out) - 1].text = AvgHeader
          /\ out[Len(out)].arg = avgTemp
    /\ (pc = "done" /\ saves = 1) => exitCode = ExitOK
    /\ Printed("Error saving cache:") =>
          /\ pc = "done"
          /\ saves = 1
          /\ exitCode = ExitOK
          /\ Len(out) >= 3
          /\ out[Len(out)].text = "Error saving cache:"
          /\ out[Len(out) - 2].text = AvgHeader
          /\ out[Len(out) - 1].arg = avgTemp

\* the write failed after truncating the file
C14_Witness ==
    /\ pc = "done"
    /\ saves = 1
    /\ Printed("Error saving cache:")
    /\ exitCode = ExitOK
    /\ cacheFile.kind = "malformed"
    /\ file0.kind = "json"

\* C15: when both provider calls succeeded, the representative reading is
\* the one appended first: the first element of the list is the reading of
\* the goroutine that appended first, its name is the one printed, and it is
\* what is stored for the city.  Either goroutine can be the first (the two
\* witnesses).
C15_FirstAppendedIsRepresentative ==
    (Joined /\ AllDone /\ Succeeded = Providers) =>
        /\ Len(origin) = 2
        /\ origin[1] # origin[2]
        /\ weatherDataList[1] = g[origin[1]].data
        /\ weatherDataList[2] = g[origin[2]].data
        /\ pc \in {"update", "save", "done"} =>
              \E k \in 1..Len(out) :
                  /\ out[k].text = AvgHeader
                  /\ out[k].arg = g[origin[1]].data.Name
        /\ (pc = "save" \/ (pc = "done" /\ saves = 1)) =>
              cache.Data[city] = g[origin[1]].data

\* the WeatherAPI reading, of the goroutine spawned second, is the
\* representative, and differs from the OpenWeatherMap reading
C15_Witness ==
    /\ Joined /\ AllDone
    /\ Succeeded = Providers
    /\ origin = <<WAPI, OWM>>
    /\ g[WAPI].data.Name # g[OWM].data.Name
    /\ pc = "done"
    /\ SavedOk
    /\ UnmarshalWD(cacheFile.data[city]) = g[WAPI].data

\* the OpenWeatherMap reading is the representative
C15_WitnessOWMFirst ==
    /\ Joined /\ AllDone
    /\ Succeeded = Providers
    /\ origin = <<OWM, WAPI>>
    /\ g[WAPI].data.Name # g[OWM].data.Name
    /\ pc = "done"
    /\ SavedOk
    /\ UnmarshalWD(cacheFile.data[city]) = g[OWM].data

\* the same city keys, the same reading under each key, the same instant
SameCache(a, b) ==
    /\ a.isNil = b.isNil
    /\ a.DataNil = b.DataNil
    /\ DOMAIN a.Data = DOMAIN b.Data
    /\ \A k \in DOMAIN a.Data : a.Data[k] = b.Data[k]
    /\ a.Timestamp.wall = b.Timestamp.wall

C17_HitOnOwnEntryEndsNormally ==
    (run > 1 /\ prev.saved /\ prev.city = city /\ HitCase /\ pc = "done") =>
        /\ Len(cache0.Data[city].Weather) > 0
        /\ exitCode = ExitOK
        /\ Len(out) = 4

\* C18: when the previous run, for city c, fetched and saved, cache.json
\* holds a data map with an entry under c and the time of that run as its
\* timestamp; a following run for the same c that starts less than 10
\* minutes later is a cache hit: no goroutine is spawned, no call is issued
\* and nothing is saved.
C18_FetchedCityHitsNextRun ==
    (run > 1 /\ prev.saved) =>
        /\ file0.kind = "json"
        /\ ~file0.dataNull
        /\ prev.city \in DOMAIN file0.data
        /\ now - file0.timestamp \in RunDelays
        /\ (Loaded /\ city = prev.city /\ now - file0.timestamp < TTL) =>
              /\ HitCase
              /\ calls = {}
              /\ \A i \in Providers : g[i].pc = "idle"
              /\ saves = 0
              /\ pc \in {"checkCache", "done"}
              /\ pc = "done" => (out # <<>> /\ out[1].text = HitHeader)

\* the first run created the cache (its only key is the city), the second
\* run, a minute later, is served from it
C18_Witness ==
    /\ run = 2
    /\ prev.saved
    /\ city = prev.city
    /\ DOMAIN file0.data = {city}
    /\ now - file0.timestamp = 1
    /\ pc = "done"
    /\ exitCode = ExitOK
    /\ calls = {}

\* C19: the temperature stored for the city is the temperature of the
\* reading appended first, not the average: when both provider calls
\* succeeded with different temperatures, the stored temperature, which is
\* the one a cache hit on the saved file prints, differs from the average
\* this run printed.
C19_StoredTempIsFirstReading ==
    (Joined /\ AllDone /\ (pc = "save" \/ (pc = "done" /\ saves = 1))) =>
        /\ cache.Data[city].Main.Temp = g[origin[1]].data.Main.Temp
        /\ (Succeeded = Providers
               /\ g[OWM].data.Main.Temp # g[WAPI].data.Main.Temp) =>
              /\ cache.Data[city].Main.Temp * avgTemp.den # avgTemp.num
              /\ \E k \in 1..Len(out) :
                    /\ out[k].text = "Temperature: %.2f (average)"
                    /\ out[k].arg = avgTemp
              /\ SavedOk =>
                    LET hit == HitReport(loadCache(cacheFile).cache.Data[city])
                    IN  /\ hit[2].text = "Temperature: %.2f"
                        /\ hit[2].arg = g[origin[1]].data.Main.Temp
                        /\ hit[2].arg * avgTemp.den # avgTemp.num

\* 10 and 20 averaged to 15 and printed; 20, appended first, is stored
C19_Witness ==
    /\ Joined /\ AllDone
    /\ pc = "done"
    /\ SavedOk
    /\ origin = <<WAPI, OWM>>
    /\ g[WAPI].data.Main.Temp = 20
    /\ g[OWM].data.Main.Temp = 10
    /\ avgTemp.num = 15 * avgTemp.den
    /\ cacheFile.data[city].main.temp = 20
====
